---- MODULE Spec2Model ----
(***************************************************************************)
(* Service gateway access control of vision-box: token verification, the   *)
(* sliding-window rate limiter and the request pipeline of                 *)
(* ServiceAuthMiddleware (backend/app/core/middleware.py), with the        *)
(* persisted PublishedService / ServiceToken / ServiceCall rows it reads   *)
(* and writes.                                                             *)
(*                                                                         *)
(* Conventions.  Python None is the empty sequence <<>> and a present      *)
(* value x is <<x>>; a missing time is NoTime.  Time is the integer number *)
(* of seconds read by time.time() / datetime.utcnow().  An ORM object      *)
(* loaded by a request is a copy of the row (a record held by the          *)
(* request); the row itself lives in services / tokens.                    *)
(***************************************************************************)
EXTENDS Integers, Sequences, FiniteSets, TLC

(***************************************************************************)
(* Program constants                                                       *)
(***************************************************************************)
WINDOW == 60
CLEANUP_INTERVAL == 300
RETENTION == 3600
HourSeconds == 3600
NoTime == -1

(***************************************************************************)
(* Bounds of the model                                                     *)
(***************************************************************************)
MaxReq == 2
MaxTicks == 2
RateLimit == 2

\* the most token rows the owner creates through concurrent create calls
MaxTokens == 3

\* the requests of the gateway specification, and one more where the requests
\* are all alike
ReqIds == 1..MaxReq
ManyReqIds == 1..(MaxReq + 1)
HalfWindow == WINDOW \div 2

VARIABLES now, services, tokens, requests, last_cleanup, calls, req, adm

vars == <<now, services, tokens, requests, last_cleanup, calls, req, adm>>

Max(a, b) == IF a >= b THEN a ELSE b

Range(s) == {s[i] : i \in DOMAIN s}

(***************************************************************************)
(* Secrets and digests (ServiceToken.generate_token)                       *)
(***************************************************************************)
\* the bearer secret issued for token id: "st_" + a fresh random string
SecretOf(id) == <<"st", id>>

\* a well-formed bearer secret that was never issued
ForgedSecret == <<"st", 0>>

\* hashlib.sha256(token.encode()).hexdigest(): injective on the secrets used
Sha256(secret) == <<"sha256", secret>>

(***************************************************************************)
(* Text conversions                                                        *)
(***************************************************************************)
\* strings that contain an apostrophe (and no double quote)
HasApostrophe(s) == s \in {"10.0.0.5'"}

\* repr() of a Python str: single quotes unless the text holds an apostrophe
PyReprStr(s) == [q |-> IF HasApostrophe(s) THEN "dq" ELSE "sq", s |-> s]

\* str(list_of_str): "[" + ", ".join(repr(x)) + "]", kept as its string literals
PyStrList(items) == [i \in DOMAIN items |-> PyReprStr(items[i])]

\* json.loads(text) of such a text: JSON strings are double-quoted only
JsonLoads(text) ==
    IF \A i \in DOMAIN text : text[i].q = "dq"
    THEN [ok |-> TRUE, val |-> {text[i].s : i \in DOMAIN text}]
    ELSE [ok |-> FALSE, val |-> {}]

\* int(text) for the override texts used: ValueError unless all digits
IsIntText(s) == s \in {"0", "1", "2", "3"}

IntOfText(s) == CASE s = "0" -> 0 [] s = "1" -> 1 [] s = "2" -> 2 [] OTHER -> 3

(***************************************************************************)
(* Persistence (backend/app/core/database.py)                              *)
(***************************************************************************)
\* AsyncSession.commit() of an object loaded as `loaded` and now `obj`: the
\* UPDATE sets the columns whose value changed and leaves the others of the
\* row as they are
write_back(row, loaded, obj) ==
    [f \in DOMAIN row |-> IF obj[f] # loaded[f] THEN obj[f] ELSE row[f]]

(***************************************************************************)
(* ServiceToken (backend/app/models/service_token.py)                      *)
(***************************************************************************)
\* ServiceToken.generate_token followed by create_token's optional settings:
\* the row that create_token commits.  expires_hours, override and whitelist
\* are <<>> when the request leaves them out.
NewToken(id, sid, name, expires_hours, override, whitelist, t) ==
    [id |-> id,
     service_id |-> sid,
     token_name |-> name,
     token_hash |-> Sha256(SecretOf(id)),
     rate_limit_override |-> IF override # <<>> /\ override[1] # "" THEN override ELSE <<>>,
     ip_whitelist |-> IF whitelist # <<>> /\ whitelist[1] # <<>>
                      THEN <<PyStrList(whitelist[1])>> ELSE <<>>,
     is_active |-> TRUE,
     is_revoked |-> FALSE,
     is_delete |-> FALSE,
     usage_count |-> 0,
     last_used_at |-> NoTime,
     last_used_ip |-> <<>>,
     expires_at |-> IF expires_hours # <<>> /\ expires_hours[1] # 0
                    THEN t + expires_hours[1] * HourSeconds ELSE NoTime]

\* a verification that does not look at expires_at
verify_token_unexpiring(tok, secret, t) ==
    IF tok.is_revoked \/ tok.is_delete \/ ~tok.is_active THEN FALSE
    ELSE Sha256(secret) = tok.token_hash

\* ServiceToken.verify_token at time t
verify_token(tok, secret, t) ==
    IF tok.is_revoked \/ tok.is_delete \/ ~tok.is_active THEN FALSE
    ELSE IF tok.expires_at # NoTime /\ t > tok.expires_at THEN FALSE
    ELSE Sha256(secret) = tok.token_hash

revoke(tok) == [tok EXCEPT !.is_revoked = TRUE, !.is_active = FALSE]

\* an activation that does not look at the token's state
activate_unguarded(tok) == [tok EXCEPT !.is_active = TRUE]

\* an activation that also lifts the revocation
activate_revoked(tok) == [tok EXCEPT !.is_active = TRUE, !.is_revoked = FALSE]

activate(tok) ==
    IF ~tok.is_revoked /\ ~tok.is_delete THEN [tok EXCEPT !.is_active = TRUE] ELSE tok

deactivate(tok) == [tok EXCEPT !.is_active = FALSE]

token_soft_delete(tok) == [tok EXCEPT !.is_delete = TRUE, !.is_active = FALSE]

\* ServiceToken.update_usage; the text column usage_count holds a decimal
\* integer, read with int() and written back with str()
update_usage(tok, ip, t) ==
    [tok EXCEPT !.usage_count = tok.usage_count + 1,
                !.last_used_at = t,
                !.last_used_ip = IF ip # "" THEN <<ip>> ELSE tok.last_used_ip]

(***************************************************************************)
(* PublishedService (backend/app/models/published_service.py)              *)
(***************************************************************************)
NewService(id, limit) ==
    [id |-> id, status |-> "active", is_delete |-> FALSE, rate_limit |-> limit,
     total_calls |-> 0, successful_calls |-> 0, failed_calls |-> 0,
     last_called_at |-> NoTime]

disable(svc) == [svc EXCEPT !.status = "disabled"]

enable(svc) == [svc EXCEPT !.status = "active"]

service_soft_delete(svc) == [svc EXCEPT !.is_delete = TRUE, !.status = "deleted"]

\* a restore that clears the delete flag and leaves the status alone
restore_flag_only(svc) == [svc EXCEPT !.is_delete = FALSE]

restore(svc) == [svc EXCEPT !.is_delete = FALSE, !.status = "active"]

\* update_service: setattr of the fields the ServiceUpdate body sets, here
\* rate_limit; the body has no status and no is_delete field
update_service(svc, limit) == [svc EXCEPT !.rate_limit = limit]

\* a call counter that counts every call as a success and as a failure
increment_call_count_both(svc, success, t) ==
    [svc EXCEPT !.total_calls = svc.total_calls + 1,
                !.successful_calls = svc.successful_calls + 1,
                !.failed_calls = svc.failed_calls + 1,
                !.last_called_at = t]

\* PublishedService.increment_call_count
increment_call_count(svc, success, t) ==
    [svc EXCEPT !.total_calls = svc.total_calls + 1,
                !.successful_calls = IF success THEN svc.successful_calls + 1
                                     ELSE svc.successful_calls,
                !.failed_calls = IF success THEN svc.failed_calls
                                 ELSE svc.failed_calls + 1,
                !.last_called_at = t]

is_active(svc) == svc.status = "active" /\ ~svc.is_delete

(***************************************************************************)
(* RateLimiter (backend/app/core/middleware.py)                            *)
(***************************************************************************)
\* a cleanup whose cutoff lies inside the rate window
cleanup_within_window(reqs, t) ==
    LET cutoff == t - HalfWindow
        pruned == [k \in DOMAIN reqs |-> SelectSeq(reqs[k], LAMBDA x : x > cutoff)]
        kept == {k \in DOMAIN reqs : pruned[k] # <<>>}
    IN [k \in kept |-> pruned[k]]

\* RateLimiter._cleanup_expired_records
cleanup_expired_records(reqs, t) ==
    LET cutoff == t - RETENTION
        pruned == [k \in DOMAIN reqs |-> SelectSeq(reqs[k], LAMBDA x : x > cutoff)]
        kept == {k \in DOMAIN reqs : pruned[k] # <<>>}
    IN [k \in kept |-> pruned[k]]

\* a window that keeps the request made exactly one window ago
in_window_closed(x, window_start) == x >= window_start

\* is_allowed: a recorded request time is inside the window
in_window(x, window_start) == x > window_start

\* an admission test that lets the count reach limit + 1
under_limit_inclusive(current_count, limit) == current_count <= limit

\* is_allowed: the admission test
under_limit(current_count, limit) == current_count < limit

\* a limiter that records the time of every call, denied ones included
is_allowed_recording_denied(reqs, lastc, key, limit, window, t) ==
    LET clean == t - lastc > CLEANUP_INTERVAL
        r1 == IF clean THEN cleanup_expired_records(reqs, t) ELSE reqs
        window_start == t - window
        history == IF key \in DOMAIN r1 THEN r1[key] ELSE <<>>
        requests_in_window == SelectSeq(history, LAMBDA x : in_window(x, window_start))
        current_count == Len(requests_in_window)
        allowed == under_limit(current_count, limit)
        after == Append(requests_in_window, t)
    IN [requests |-> [k \in DOMAIN r1 \cup {key} |-> IF k = key THEN after ELSE r1[k]],
        last_cleanup |-> IF clean THEN t ELSE lastc,
        allowed |-> allowed,
        info |-> [limit |-> limit,
                  remaining |-> Max(0, limit - current_count - (IF allowed THEN 1 ELSE 0)),
                  reset |-> t + window,
                  current |-> current_count + (IF allowed THEN 1 ELSE 0)]]

\* RateLimiter.is_allowed(key, limit, window) called at time t on the limiter
\* state (reqs, lastc): the new limiter state, the decision and the info dict.
\* requests_in_window and self.requests[key] are the same list object, so the
\* append of an admitted call is seen by the reset computation.
is_allowed(reqs, lastc, key, limit, window, t) ==
    LET clean == t - lastc > CLEANUP_INTERVAL
        r1 == IF clean THEN cleanup_expired_records(reqs, t) ELSE reqs
        window_start == t - window
        history == IF key \in DOMAIN r1 THEN r1[key] ELSE <<>>
        requests_in_window == SelectSeq(history, LAMBDA x : in_window(x, window_start))
        current_count == Len(requests_in_window)
        allowed == under_limit(current_count, limit)
        after == IF allowed THEN Append(requests_in_window, t) ELSE requests_in_window
    IN [requests |-> [k \in DOMAIN r1 \cup {key} |-> IF k = key THEN after ELSE r1[k]],
        last_cleanup |-> IF clean THEN t ELSE lastc,
        allowed |-> allowed,
        info |-> [limit |-> limit,
                  remaining |-> Max(0, limit - current_count - (IF allowed THEN 1 ELSE 0)),
                  reset |-> IF after # <<>> THEN t + window ELSE t,
                  current |-> current_count + (IF allowed THEN 1 ELSE 0)]]

(***************************************************************************)
(* ServiceAuthMiddleware (backend/app/core/middleware.py)                  *)
(***************************************************************************)
SvcIds == {1}

\* the request headers and peer address that _get_client_ip reads
ClientHeaders ==
    {[xff |-> <<>>, real |-> <<>>, peer |-> "10.0.0.9"],
     [xff |-> <<"10.0.0.5'">>, real |-> <<"10.0.0.9">>, peer |-> "10.0.0.9"]}

\* ServiceAuthMiddleware._get_client_ip
get_client_ip(h) ==
    IF h.xff # <<>> /\ h.xff[1] # "" THEN h.xff[1]
    ELSE IF h.real # <<>> /\ h.real[1] # "" THEN h.real[1]
    ELSE h.peer

\* a token query that leaves out the service filter
token_query_any_service(rows, sid) ==
    SelectSeq(rows, LAMBDA tk : tk.is_active /\ ~tk.is_revoked /\ ~tk.is_delete)

\* the token query of _authenticate_request: rows of the service that are
\* active, not revoked and not deleted, in store order
token_query(rows, sid) ==
    SelectSeq(rows, LAMBDA tk : tk.service_id = sid /\ tk.is_active
                                /\ ~tk.is_revoked /\ ~tk.is_delete)

\* the verification loop of _authenticate_request: the position in toks of
\* the first token that verifies the secret, 0 when none does
first_match(toks, secret, t) ==
    LET hits == {i \in DOMAIN toks : verify_token(toks[i], secret, t)}
    IN IF hits = {} THEN 0 ELSE CHOOSE i \in hits : \A j \in hits : i <= j

\* a limit that takes the service's value whatever the token overrides
limit_value_of_service(tok, svc) == svc.rate_limit

\* dispatch: limit = token.rate_limit_override or service.rate_limit, then
\* int(limit) when it is a str, falling back to service.rate_limit
limit_value(tok, svc) ==
    IF tok.rate_limit_override = <<>> THEN svc.rate_limit
    ELSE IF IsIntText(tok.rate_limit_override[1]) THEN IntOfText(tok.rate_limit_override[1])
    ELSE svc.rate_limit

rate_limit_key(sid, tok) == <<sid, tok.id>>

\* dispatch: the IP allow-list check rejects the request
ip_rejected(tok, ip) ==
    IF tok.ip_whitelist = <<>> THEN FALSE
    ELSE LET parsed == JsonLoads(tok.ip_whitelist[1])
         IN parsed.ok /\ ip \notin parsed.val

NewRequest ==
    [pc |-> "new", sid |-> 0, auth |-> <<>>, hdr |-> <<>>, svc |-> <<>>,
     toks |-> <<>>, token |-> <<>>, rate |-> <<>>, out |-> "",
     checked_at |-> NoTime, status |-> 0, code |-> "", body |-> "", rlh |-> FALSE,
     fin |-> <<>>, path |-> <<>>, fault |-> ""]

\* a rejection that counts the call on the service as a failed one
Reject_counted(rq, status, code) ==
    [rq EXCEPT !.pc = "done", !.status = status, !.code = code, !.body = "error",
               !.svc = IF rq.svc = <<>> THEN <<>>
                       ELSE <<increment_call_count(rq.svc[1], FALSE, 0)>>]

\* a JSONResponse returned by dispatch itself
Reject(rq, status, code) ==
    [rq EXCEPT !.pc = "done", !.status = status, !.code = code, !.body = "error"]

\* a dispatch that runs call_next whatever the checks say
call_next_always(rq, rejected, status, code) == [rq EXCEPT !.pc = "handler"]

\* where dispatch goes once the checks are made: the rejection is returned,
\* otherwise call_next runs the handler
after_checks(rq, rejected, status, code) ==
    IF rejected THEN Reject(rq, status, code) ELSE [rq EXCEPT !.pc = "handler"]

\* A URL path is the sequence of its segments: /api/v1/services/1/detect is
\* <<"api", "v1", "services", "1", "detect">>.  A service id is written in
\* the path as its decimal text.
TextOfId(id) == CASE id = 0 -> "0" [] id = 1 -> "1" [] id = 2 -> "2" [] OTHER -> "3"

IdOfText(seg) == IF IsIntText(seg) THEN IntOfText(seg) ELSE 0

\* ServiceAuthMiddleware.__init__: self.service_paths, each ending in "/"
service_paths == {<<"api", "services">>, <<"api", "v1", "services">>}

\* ServiceAuthMiddleware._is_service_call
is_service_call(path) ==
    \E prefix \in service_paths :
        /\ Len(path) > Len(prefix)
        /\ SubSeq(path, 1, Len(prefix)) = prefix

\* ServiceAuthMiddleware._extract_service_id: <<>> for None
extract_service_id(path) ==
    IF Len(path) >= 3 /\ path[2] = "services" THEN <<path[3]>>
    ELSE IF Len(path) >= 4 /\ path[2] = "v1" /\ path[3] = "services" THEN <<path[4]>>
    ELSE <<>>

\* dispatch: the three tests that let a request go straight to call_next
enters_pipeline(path) ==
    /\ is_service_call(path)
    /\ extract_service_id(path) # <<>>
    /\ path # <<>> /\ path[Len(path)] = "detect"

\* services.generate_api_endpoint: the api_endpoint a service advertises
generate_api_endpoint(id) == <<"api", "v1", "pubbed_services", TextOfId(id), "detect">>

\* the detect path of a service under the middleware's own prefix
service_path(id) == <<"api", "v1", "services", TextOfId(id), "detect">>

\* dispatch: a request whose path fails the match goes to call_next with no
\* check
PassThrough(r, path) ==
    /\ req[r].pc = "new"
    /\ \A q \in DOMAIN req : q < r => req[q].pc # "new"
    /\ ~enters_pipeline(path)
    /\ req' = [req EXCEPT ![r].pc = "passed", ![r].path = path]
    /\ UNCHANGED <<now, services, tokens, requests, last_cleanup, calls, adm>>

\* dispatch from the path match up to the service query of
\* _authenticate_request
AuthenticateAt(r, path, auth, hdr) ==
    /\ req[r].pc = "new"
    /\ \A q \in DOMAIN req : q < r => req[q].pc # "new"
    /\ enters_pipeline(path)
    /\ LET sid == IdOfText(extract_service_id(path)[1])
           rq == [req[r] EXCEPT !.sid = sid, !.auth = auth, !.hdr = hdr, !.path = path]
       IN req' = [req EXCEPT ![r] =
            IF auth = <<>> THEN Reject(rq, 401, "INVALID_TOKEN")
            ELSE IF sid \notin DOMAIN services \/ services[sid].is_delete
                 THEN Reject(rq, 401, "INVALID_TOKEN")
            ELSE [rq EXCEPT !.pc = "tok_q", !.svc = <<services[sid]>>]]
    /\ UNCHANGED <<now, services, tokens, requests, last_cleanup, calls, adm>>

\* the same for a request to the detect path of service sid under the
\* middleware's prefix
Authenticate(r, sid, auth, hdr) == AuthenticateAt(r, service_path(sid), auth, hdr)

\* _authenticate_request: the token query
TokenQuery(r) ==
    /\ req[r].pc = "tok_q"
    /\ req' = [req EXCEPT ![r].pc = "verify",
                          ![r].toks = token_query(tokens, req[r].sid)]
    /\ UNCHANGED <<now, services, tokens, requests, last_cleanup, calls, adm>>

\* _authenticate_request: verify the loaded tokens, update the usage of the
\* first match and commit it (the UPDATE writes the columns update_usage set)
Resolve(r) ==
    /\ req[r].pc = "verify"
    /\ LET rq == req[r]
           i == first_match(rq.toks, rq.auth[1], now)
       IN IF i = 0
          THEN /\ req' = [req EXCEPT ![r] = [Reject(rq, 401, "INVALID_TOKEN") EXCEPT !.toks = <<>>]]
               /\ UNCHANGED tokens
          ELSE LET obj == update_usage(rq.toks[i], get_client_ip(rq.hdr), now)
               IN /\ tokens' = [tokens EXCEPT ![obj.id] = write_back(@, rq.toks[i], obj)]
                  /\ req' = [req EXCEPT ![r].pc = "checks", ![r].token = <<obj>>,
                                        ![r].toks = <<>>]
    /\ UNCHANGED <<now, services, requests, last_cleanup, calls, adm>>

\* a dispatch that checks the allow-list before it calls the limiter
Checks_allow_list_first(r) ==
    /\ req[r].pc = "checks"
    /\ LET rq == req[r]
           svc == rq.svc[1]
           tok == rq.token[1]
           res == is_allowed(requests, last_cleanup, rate_limit_key(rq.sid, tok),
                             limit_value(tok, svc), WINDOW, now)
       IN IF ~is_active(svc)
          THEN /\ req' = [req EXCEPT ![r] = after_checks(rq, TRUE, 403, "SERVICE_DISABLED")]
               /\ UNCHANGED <<requests, last_cleanup>>
          ELSE IF ip_rejected(tok, get_client_ip(rq.hdr))
          THEN /\ req' = [req EXCEPT ![r] = after_checks(rq, TRUE, 403, "IP_NOT_ALLOWED")]
               /\ UNCHANGED <<requests, last_cleanup>>
          ELSE /\ requests' = res.requests
               /\ last_cleanup' = res.last_cleanup
               /\ LET rq1 == [rq EXCEPT !.rate = <<res.info>>, !.checked_at = now]
                  IN req' = [req EXCEPT ![r] =
                       IF ~res.allowed
                       THEN [after_checks(rq1, TRUE, 429, "RATE_LIMIT_EXCEEDED")
                                EXCEPT !.rlh = TRUE]
                       ELSE after_checks(rq1, FALSE, 403, "IP_NOT_ALLOWED")]
    /\ UNCHANGED <<now, services, tokens, calls, adm>>

\* dispatch: service activity, rate limit and IP allow-list checks, up to
\* call_next
Checks(r) ==
    /\ req[r].pc = "checks"
    /\ LET rq == req[r]
           svc == rq.svc[1]
           tok == rq.token[1]
           res == is_allowed(requests, last_cleanup, rate_limit_key(rq.sid, tok),
                             limit_value(tok, svc), WINDOW, now)
       IN IF ~is_active(svc)
          THEN /\ req' = [req EXCEPT ![r] = after_checks(rq, TRUE, 403, "SERVICE_DISABLED")]
               /\ UNCHANGED <<requests, last_cleanup>>
          ELSE /\ requests' = res.requests
               /\ last_cleanup' = res.last_cleanup
               /\ LET rq1 == [rq EXCEPT !.rate = <<res.info>>, !.checked_at = now]
                  IN req' = [req EXCEPT ![r] =
                       IF ~res.allowed
                       THEN [after_checks(rq1, TRUE, 429, "RATE_LIMIT_EXCEEDED")
                                EXCEPT !.rlh = TRUE]
                       ELSE after_checks(rq1, ip_rejected(tok, get_client_ip(rq.hdr)),
                                         403, "IP_NOT_ALLOWED")]
    /\ UNCHANGED <<now, services, tokens, calls, adm>>

\* service_detect behind call_next: what the handler does with the request.
\*   ok            detection succeeds
\*   detect_error  an Exception inside service_detect's try block
\*   http_error    an HTTPException (unsupported format), answered by
\*                 http_exception_handler
\*   commit_error  the db.commit() that ends the success path raises, after
\*                 the call record update; handled like detect_error
\*   raised        an exception that leaves the endpoint (the rollback of the
\*                 except block, a dependency), re-raised by call_next
HandlerOutcomes == {"ok", "detect_error", "http_error", "commit_error", "raised"}

\* the response call_next returns for an outcome that returns one
handler_response(out) ==
    CASE out = "ok" -> [status |-> 200, body |-> "success_true"]
      [] out \in {"detect_error", "commit_error"} -> [status |-> 200, body |-> "success_false"]
      [] OTHER -> [status |-> 400, body |-> "http_error"]

\* a dispatch that puts a call record on request.state
has_call_record_set(rq) == TRUE

\* hasattr(request.state, 'call_record') in service_detect: dispatch puts
\* service, token and rate_info on request.state, and nothing puts a
\* call_record there
has_call_record(rq) == FALSE

\* the finalizers service_detect applies to request.state.call_record, in
\* order: complete_call at the end of the success path, set_error in the
\* except block
finalizers(out, has) ==
    IF ~has THEN <<>>
    ELSE CASE out = "ok" -> <<"complete_call">>
           [] out = "commit_error" -> <<"complete_call", "set_error">>
           [] out \in {"detect_error", "raised"} -> <<"set_error">>
           [] OTHER -> <<>>

\* dispatch: await call_next(request); an exception lands in dispatch's own
\* except clause, which answers 500 AUTH_ERROR
Handler(r, out) ==
    /\ req[r].pc = "handler"
    /\ req' = [req EXCEPT ![r] =
         IF out = "raised"
         THEN [Reject(req[r], 500, "AUTH_ERROR") EXCEPT
                  !.out = out, !.fin = finalizers(out, has_call_record(req[r]))]
         ELSE [req[r] EXCEPT !.pc = "log", !.out = out,
                             !.fin = finalizers(out, has_call_record(req[r])),
                             !.status = handler_response(out).status,
                             !.body = handler_response(out).body]]
    /\ UNCHANGED <<now, services, tokens, requests, last_cleanup, calls, adm>>

\* the success flag _log_service_call derives from the response
call_success(status_code) == 200 <= status_code /\ status_code < 300

\* _log_service_call, then the rate-limit headers and the return of dispatch.
\* The ServiceCall row is added to a new session and committed.  The service
\* object was loaded by the session of _authenticate_request, which that
\* function closed: increment_call_count changes the request's own object,
\* no session holds it, and the commit writes the ServiceCall row only.
Log(r) ==
    /\ req[r].pc = "log"
    /\ LET rq == req[r]
           ok == call_success(rq.status)
       IN /\ calls' = Append(calls, [service_id |-> rq.svc[1].id,
                                     token_id |-> rq.token[1].id,
                                     request |-> r,
                                     status_code |-> rq.status,
                                     success |-> ok])
          /\ req' = [req EXCEPT ![r].pc = "done", ![r].rlh = TRUE,
                                ![r].svc = <<increment_call_count(rq.svc[1], ok, now)>>]
    /\ UNCHANGED <<now, services, tokens, requests, last_cleanup, adm>>

\* _authenticate_request: the token query or the commit of the usage update
\* raises (a persistence error); the except clause logs it and returns None,
\* nothing is stored, and dispatch answers as for an unknown token
AuthFault(r) ==
    /\ req[r].pc \in {"tok_q", "verify"}
    /\ req' = [req EXCEPT ![r] = [Reject(req[r], 401, "INVALID_TOKEN") EXCEPT
                                     !.toks = <<>>, !.fault = "resolution"]]
    /\ UNCHANGED <<now, services, tokens, requests, last_cleanup, calls, adm>>

\* _log_service_call: the commit of the ledger row raises; the inner except
\* clause logs it and rolls back, and dispatch returns the handler's response
\* with the rate-limit headers
LogFault(r) ==
    /\ req[r].pc = "log"
    /\ req' = [req EXCEPT ![r].pc = "done", ![r].rlh = TRUE, ![r].fault = "audit",
                          ![r].svc = <<increment_call_count(req[r].svc[1],
                                                            call_success(req[r].status), now)>>]
    /\ UNCHANGED <<now, services, tokens, requests, last_cleanup, calls, adm>>

\* the body service_detect returns from its except block carries str(e) in
\* its message
has_error_text(body) == body = "success_false"

(***************************************************************************)
(* Owner endpoints (backend/app/api/v1/tokens.py, services.py)             *)
(***************************************************************************)
AdmIds == {1, 2}

TokenOps == {"revoke", "activate", "deactivate", "soft_delete"}

ServiceOps == {"disable", "enable", "soft_delete", "restore"}

apply_token_op(op, tok) ==
    CASE op = "revoke" -> revoke(tok)
      [] op = "activate" -> activate(tok)
      [] op = "deactivate" -> deactivate(tok)
      [] OTHER -> token_soft_delete(tok)

apply_service_op(op, svc) ==
    CASE op = "disable" -> disable(svc)
      [] op = "enable" -> enable(svc)
      [] op = "soft_delete" -> service_soft_delete(svc)
      [] op = "update" -> update_service(svc, RateLimit + 1)
      [] OTHER -> restore(svc)

\* tokens.get_token_by_id finds the token: its service is not deleted and the
\* token is not deleted
token_found(tid) ==
    /\ tid \in DOMAIN tokens
    /\ ~tokens[tid].is_delete
    /\ tokens[tid].service_id \in DOMAIN services
    /\ ~services[tokens[tid].service_id].is_delete

\* services.get_service_by_id finds the service; restore_service looks among
\* the deleted ones too and refuses a service that is not deleted
service_found(op, sid) ==
    /\ sid \in DOMAIN services
    /\ IF op = "restore" THEN services[sid].is_delete ELSE ~services[sid].is_delete

\* the owner's call slot a is free: no call was made through it, or the last
\* one has returned
slot_free(a) == IF adm[a] = <<>> THEN TRUE ELSE adm[a][1].kind = "returned"

\* what an owner call holds once its endpoint has returned 200: the
\* operation and the object as the endpoint left it
returned(op, obj) == <<[kind |-> "returned", op |-> op, obj |-> obj]>>

\* activate_token / deactivate_token / revoke_token / delete_token_permanent:
\* the load of the token
LoadToken(a, op, tid) ==
    /\ slot_free(a)
    /\ token_found(tid)
    /\ adm' = [adm EXCEPT ![a] = <<[kind |-> "token", op |-> op, obj |-> tokens[tid]]>>]
    /\ UNCHANGED <<now, services, tokens, requests, last_cleanup, calls, req>>

\* ... and the state change with its commit
CommitToken(a) ==
    /\ adm[a] # <<>>
    /\ adm[a][1].kind = "token"
    /\ LET loaded == adm[a][1].obj
           obj == apply_token_op(adm[a][1].op, loaded)
       IN /\ tokens' = [tokens EXCEPT ![loaded.id] = write_back(@, loaded, obj)]
          /\ adm' = [adm EXCEPT ![a] = returned(adm[a][1].op, obj)]
    /\ UNCHANGED <<now, services, requests, last_cleanup, calls, req>>

\* disable_service / enable_service / delete_service / restore_service: the
\* load of the service
LoadService(a, op, sid) ==
    /\ slot_free(a)
    /\ service_found(op, sid)
    /\ adm' = [adm EXCEPT ![a] = <<[kind |-> "service", op |-> op, obj |-> services[sid]]>>]
    /\ UNCHANGED <<now, services, tokens, requests, last_cleanup, calls, req>>

\* ... and the state change with its commit
CommitService(a) ==
    /\ adm[a] # <<>>
    /\ adm[a][1].kind = "service"
    /\ LET loaded == adm[a][1].obj
           obj == apply_service_op(adm[a][1].op, loaded)
       IN /\ services' = [services EXCEPT ![loaded.id] = write_back(@, loaded, obj)]
          /\ adm' = [adm EXCEPT ![a] = returned(adm[a][1].op, obj)]
    /\ UNCHANGED <<now, tokens, requests, last_cleanup, calls, req>>

\* create_service: a new row under a fresh id, with the column defaults
CreateService(sid, limit) ==
    /\ sid \notin DOMAIN services
    /\ services' = [s \in DOMAIN services \cup {sid} |->
                       IF s = sid THEN NewService(sid, limit) ELSE services[s]]
    /\ UNCHANGED <<now, tokens, requests, last_cleanup, calls, req, adm>>

\* create_token run from its name check to its commit with no other call in
\* between: the name check, generate_token, the optional settings and the
\* commit
CreateToken(sid, name, expires_hours, override, whitelist) ==
    /\ sid \in DOMAIN services
    /\ ~services[sid].is_delete
    /\ ~\E i \in DOMAIN tokens :
          /\ tokens[i].service_id = sid
          /\ tokens[i].token_name = name
          /\ ~tokens[i].is_delete
    /\ tokens' = Append(tokens, NewToken(Len(tokens) + 1, sid, name, expires_hours,
                                         override, whitelist, now))
    /\ UNCHANGED <<now, services, requests, last_cleanup, calls, req, adm>>

\* create_token up to its name check: the service is found and the query for
\* a token of the service with this name that is not deleted returns none
CheckTokenName(a, sid, name) ==
    /\ slot_free(a)
    /\ Len(tokens) < MaxTokens
    /\ sid \in DOMAIN services
    /\ ~services[sid].is_delete
    /\ ~\E i \in DOMAIN tokens :
          /\ tokens[i].service_id = sid
          /\ tokens[i].token_name = name
          /\ ~tokens[i].is_delete
    /\ adm' = [adm EXCEPT ![a] =
                  <<[kind |-> "create", op |-> "create",
                     obj |-> [service_id |-> sid, token_name |-> name, created_at |-> now]]>>]
    /\ UNCHANGED <<now, services, tokens, requests, last_cleanup, calls, req>>

\* ... and generate_token, db.add and the commit, which inserts the row
CommitCreate(a) ==
    /\ adm[a] # <<>>
    /\ adm[a][1].kind = "create"
    /\ LET o == adm[a][1].obj
           row == NewToken(Len(tokens) + 1, o.service_id, o.token_name,
                           <<>>, <<>>, <<>>, o.created_at)
       IN /\ tokens' = Append(tokens, row)
          /\ adm' = [adm EXCEPT ![a] = returned("create", row)]
    /\ UNCHANGED <<now, services, requests, last_cleanup, calls, req>>

(***************************************************************************)
(* The clock                                                               *)
(***************************************************************************)
\* time passes by d seconds
Tick(d) ==
    /\ now' = now + d
    /\ UNCHANGED <<services, tokens, requests, last_cleanup, calls, req, adm>>

\* every pipeline invocation has returned its response (or has not started)
Quiescent == \A r \in DOMAIN req : req[r].pc \in {"new", "done"}

(***************************************************************************)
(* Specifications                                                          *)
(***************************************************************************)
NoRows == [k \in {} |-> <<>>]

\* what a client can put in the Authorization header: nothing usable, a
\* secret that was never issued, or the secret of an issued token
AuthChoices == {<<>>, <<ForgedSecret>>} \cup {<<SecretOf(i)>> : i \in DOMAIN tokens}

\* the clock may advance by half a window while fewer than MaxTicks such
\* steps were taken since the last full hour, and by an hour once
TickHalf == (now % HourSeconds) < MaxTicks * HalfWindow /\ Tick(HalfWindow)

TickHour == now < HourSeconds /\ Tick(HourSeconds)

\* the state after construction with the given token rows in the store
InitWith(toks) ==
    /\ now = 0
    /\ services = [s \in SvcIds |-> NewService(s, RateLimit)]
    /\ tokens = toks
    /\ requests = NoRows
    /\ last_cleanup = 0
    /\ calls = <<>>
    /\ req = [r \in ManyReqIds |-> NewRequest]
    /\ adm = [a \in AdmIds |-> <<>>]

\* a token created at time 0 with no optional setting
PlainToken(id) == NewToken(id, 1, "plain", <<>>, <<>>, <<>>, 0)

\* a token created at time 0 that expires after an hour, overrides the rate
\* limit with "1" and declares an allow-list
GuardedToken(id) == NewToken(id, 1, "guarded", <<1>>, <<"1">>, <<(<<"10.0.0.5'">>)>>, 0)

\* The gateway: one service, its two tokens, concurrent requests of every
\* kind, every handler outcome, and the owner disabling and enabling the
\* service meanwhile.
Init == InitWith(<<PlainToken(1), GuardedToken(2)>>)

Next ==
    \/ \E r \in ReqIds, sid \in SvcIds, auth \in AuthChoices, hdr \in ClientHeaders :
          Authenticate(r, sid, auth, hdr)
    \/ \E r \in ReqIds : TokenQuery(r)
    \/ \E r \in ReqIds : Resolve(r)
    \/ \E r \in ReqIds : Checks(r)
    \/ \E r \in ReqIds, out \in HandlerOutcomes : Handler(r, out)
    \/ \E r \in ReqIds : Log(r)
    \/ \E op \in {"disable", "enable"}, sid \in SvcIds : LoadService(1, op, sid)
    \/ CommitService(1)

Spec == Init /\ [][Next]_vars

\* The limiter: requests that present the secret of either token from an
\* allowed address, one more of them than in the gateway specification, while
\* time passes by half windows.
AllowedHeaders == {h \in ClientHeaders : get_client_ip(h) = "10.0.0.5'"}

InitLimiter == InitWith(<<PlainToken(1), GuardedToken(2)>>)

NextLimiter ==
    \/ \E r \in ManyReqIds, sid \in SvcIds, i \in DOMAIN tokens, hdr \in AllowedHeaders :
          Authenticate(r, sid, <<SecretOf(i)>>, hdr)
    \/ \E r \in ManyReqIds : TokenQuery(r)
    \/ \E r \in ManyReqIds : Resolve(r)
    \/ \E r \in ManyReqIds : Checks(r)
    \/ \E r \in ManyReqIds : Handler(r, "ok")
    \/ \E r \in ManyReqIds : Log(r)
    \/ TickHalf

SpecLimiter == InitLimiter /\ [][NextLimiter]_vars

\* The clock: the same requests while time passes by half windows and by an
\* hour (past the guarded token's expiry, the limiter's cleanup interval and
\* its retention horizon).
InitTimed == InitWith(<<PlainToken(1), GuardedToken(2)>>)

NextTimed ==
    \/ \E r \in ReqIds, sid \in SvcIds, i \in DOMAIN tokens, hdr \in AllowedHeaders :
          Authenticate(r, sid, <<SecretOf(i)>>, hdr)
    \/ \E r \in ReqIds : TokenQuery(r)
    \/ \E r \in ReqIds : Resolve(r)
    \/ \E r \in ReqIds : Checks(r)
    \/ \E r \in ReqIds : Handler(r, "ok")
    \/ \E r \in ReqIds : Log(r)
    \/ TickHalf
    \/ TickHour

SpecTimed == InitTimed /\ [][NextTimed]_vars

\* The token lifecycle: the owner's endpoints act on a plain token, two at a
\* time, while requests present its secret.
InitTokens == InitWith(<<PlainToken(1)>>)

NextTokens ==
    \/ \E r \in ReqIds, sid \in SvcIds, i \in DOMAIN tokens, hdr \in AllowedHeaders :
          Authenticate(r, sid, <<SecretOf(i)>>, hdr)
    \/ \E r \in ReqIds : TokenQuery(r)
    \/ \E r \in ReqIds : Resolve(r)
    \/ \E r \in ReqIds : Checks(r)
    \/ \E r \in ReqIds : Handler(r, "ok")
    \/ \E r \in ReqIds : Log(r)
    \/ \E a \in AdmIds, op \in TokenOps, tid \in DOMAIN tokens : LoadToken(a, op, tid)
    \/ \E a \in AdmIds : CommitToken(a)

SpecTokens == InitTokens /\ [][NextTokens]_vars

\* Token creation: the owner creates tokens with and without an allow-list
\* through create_token, and requests present their secrets from addresses
\* inside and outside the lists.
Whitelists == {<<>>, <<(<<"10.0.0.5">>)>>, <<(<<"10.0.0.5'">>)>>}

InitCreate == InitWith(<<>>)

NextCreate ==
    \/ \E name \in {"a", "b"}, wl \in Whitelists : CreateToken(1, name, <<>>, <<>>, wl)
    \/ \E r \in ReqIds, sid \in SvcIds, auth \in AuthChoices, hdr \in ClientHeaders :
          Authenticate(r, sid, auth, hdr)
    \/ \E r \in ReqIds : TokenQuery(r)
    \/ \E r \in ReqIds : Resolve(r)
    \/ \E r \in ReqIds : Checks(r)
    \/ \E r \in ReqIds : Handler(r, "ok")
    \/ \E r \in ReqIds : Log(r)

SpecCreate == InitCreate /\ [][NextCreate]_vars

\* The limiter's cleanup: requests run one after another under two keys, one
\* of them limited to a single call per window, while the clock advances by
\* half a window, by the cleanup interval and by the rest of the retention
\* horizon, each once.
CleanupReqIds == 1..(MaxReq + 2)

RestOfRetention == RETENTION - CLEANUP_INTERVAL - HalfWindow

CleanupTokens ==
    <<NewToken(1, 1, "first", <<>>, <<>>, <<>>, 0),
      NewToken(2, 1, "second", <<>>, <<"1">>, <<>>, 0)>>

InitCleanup ==
    /\ now = 0
    /\ services = [s \in SvcIds |-> NewService(s, RateLimit)]
    /\ tokens = CleanupTokens
    /\ requests = NoRows
    /\ last_cleanup = 0
    /\ calls = <<>>
    /\ req = [r \in CleanupReqIds |-> NewRequest]
    /\ adm = [a \in AdmIds |-> <<>>]

TickRest == now < RestOfRetention /\ Tick(RestOfRetention)

TickInterval == (now % RestOfRetention) < CLEANUP_INTERVAL /\ Tick(CLEANUP_INTERVAL)

TickShort == ((now % RestOfRetention) % CLEANUP_INTERVAL) < HalfWindow /\ Tick(HalfWindow)

NextCleanup ==
    \/ \E r \in CleanupReqIds, i \in DOMAIN tokens, hdr \in AllowedHeaders :
          Quiescent /\ Authenticate(r, 1, <<SecretOf(i)>>, hdr)
    \/ \E r \in CleanupReqIds : TokenQuery(r)
    \/ \E r \in CleanupReqIds : Resolve(r)
    \/ \E r \in CleanupReqIds : Checks(r)
    \/ \E r \in CleanupReqIds : Handler(r, "ok")
    \/ \E r \in CleanupReqIds : Log(r)
    \/ Quiescent /\ TickRest
    \/ Quiescent /\ TickInterval
    \/ Quiescent /\ TickShort

SpecCleanup == InitCleanup /\ [][NextCleanup]_vars

\* the same, where a request that dispatch has begun is carried to its
\* response and the clock does not stop while it may advance; whether any
\* further request arrives is left open
PipelineStep ==
    \E r \in CleanupReqIds :
        TokenQuery(r) \/ Resolve(r) \/ Checks(r) \/ Handler(r, "ok") \/ Log(r)

ClockStep == Quiescent /\ (TickRest \/ TickInterval \/ TickShort)

SpecCleanupFair ==
    /\ InitCleanup
    /\ [][NextCleanup]_vars
    /\ WF_vars(PipelineStep)
    /\ WF_vars(ClockStep)

\* Overrides: tokens without an override, with a numeric one and with one
\* that int() refuses, presented by concurrent requests.
OverrideTokens ==
    <<NewToken(1, 1, "plain", <<>>, <<>>, <<>>, 0),
      NewToken(2, 1, "numeric", <<>>, <<"1">>, <<>>, 0),
      NewToken(3, 1, "malformed", <<>>, <<"abc">>, <<>>, 0)>>

InitOverride == InitWith(OverrideTokens)

NextOverride ==
    \/ \E r \in ReqIds, i \in DOMAIN tokens, hdr \in AllowedHeaders :
          Authenticate(r, 1, <<SecretOf(i)>>, hdr)
    \/ \E r \in ReqIds : TokenQuery(r)
    \/ \E r \in ReqIds : Resolve(r)
    \/ \E r \in ReqIds : Checks(r)
    \/ \E r \in ReqIds, out \in HandlerOutcomes : Handler(r, out)
    \/ \E r \in ReqIds : Log(r)

SpecOverride == InitOverride /\ [][NextOverride]_vars

\* The allow-list: requests present the secret of a token that declares an
\* allow-list and a limit of one call per window, from addresses inside and
\* outside the list, while time passes by half windows.
InitAllowList == InitWith(<<GuardedToken(1)>>)

NextAllowList ==
    \/ \E r \in ManyReqIds, hdr \in ClientHeaders :
          Authenticate(r, 1, <<SecretOf(1)>>, hdr)
    \/ \E r \in ManyReqIds : TokenQuery(r)
    \/ \E r \in ManyReqIds : Resolve(r)
    \/ \E r \in ManyReqIds : Checks(r)
    \/ \E r \in ManyReqIds : Handler(r, "ok")
    \/ \E r \in ManyReqIds : Log(r)
    \/ TickHalf

SpecAllowList == InitAllowList /\ [][NextAllowList]_vars

\* Token names: the owner creates tokens under two names through concurrent
\* create_token calls and deletes tokens.
TokenNames == {"a", "b"}

InitNames == InitWith(<<>>)

NextNames ==
    \/ \E a \in AdmIds, name \in TokenNames : CheckTokenName(a, 1, name)
    \/ \E a \in AdmIds : CommitCreate(a)
    \/ \E a \in AdmIds, tid \in DOMAIN tokens : LoadToken(a, "soft_delete", tid)
    \/ \E a \in AdmIds : CommitToken(a)

SpecNames == InitNames /\ [][NextNames]_vars

\* The service lifecycle: the owner disables, enables, deletes and restores
\* the service while requests present the secrets of its tokens.
InitServices == InitWith(<<PlainToken(1), GuardedToken(2)>>)

NextServices ==
    \/ \E r \in ReqIds, sid \in SvcIds, i \in DOMAIN tokens, hdr \in AllowedHeaders :
          Authenticate(r, sid, <<SecretOf(i)>>, hdr)
    \/ \E r \in ReqIds : TokenQuery(r)
    \/ \E r \in ReqIds : Resolve(r)
    \/ \E r \in ReqIds : Checks(r)
    \/ \E r \in ReqIds : Handler(r, "ok")
    \/ \E r \in ReqIds : Log(r)
    \/ \E op \in ServiceOps, sid \in SvcIds : LoadService(1, op, sid)
    \/ CommitService(1)

SpecServices == InitServices /\ [][NextServices]_vars

\* The path match: requests to the advertised endpoint of the service, to
\* the paths under the middleware's prefixes and to other paths.
Paths ==
    {generate_api_endpoint(s) : s \in SvcIds} \cup {service_path(s) : s \in SvcIds}
    \cup {<<"api", "services", "1", "detect">>, <<"api", "v1", "services", "1", "info">>,
          <<"api", "v1", "services">>, <<"health">>}

InitPaths == InitWith(<<PlainToken(1), GuardedToken(2)>>)

NextPaths ==
    \/ \E r \in ReqIds, path \in Paths, auth \in AuthChoices, hdr \in ClientHeaders :
          AuthenticateAt(r, path, auth, hdr)
    \/ \E r \in ReqIds, path \in Paths : PassThrough(r, path)
    \/ \E r \in ReqIds : TokenQuery(r)
    \/ \E r \in ReqIds : Resolve(r)
    \/ \E r \in ReqIds : Checks(r)
    \/ \E r \in ReqIds : Handler(r, "ok")
    \/ \E r \in ReqIds : Log(r)

SpecPaths == InitPaths /\ [][NextPaths]_vars

\* Faults: the gateway with every handler outcome, while the persistence
\* layer may fail under the token resolution and under the audit.
InitFaults == InitWith(<<PlainToken(1), GuardedToken(2)>>)

NextFaults ==
    \/ \E r \in ReqIds, sid \in SvcIds, auth \in AuthChoices, hdr \in ClientHeaders :
          Authenticate(r, sid, auth, hdr)
    \/ \E r \in ReqIds : TokenQuery(r)
    \/ \E r \in ReqIds : Resolve(r)
    \/ \E r \in ReqIds : AuthFault(r)
    \/ \E r \in ReqIds : Checks(r)
    \/ \E r \in ReqIds, out \in HandlerOutcomes : Handler(r, out)
    \/ \E r \in ReqIds : Log(r)
    \/ \E r \in ReqIds : LogFault(r)

SpecFaults == InitFaults /\ [][NextFaults]_vars

\* Scope: two published services with one token each; requests present either
\* secret at either service.
ScopeSvcIds == {1, 2}

ScopeTokens ==
    <<NewToken(1, 1, "first", <<>>, <<>>, <<>>, 0),
      NewToken(2, 2, "second", <<>>, <<>>, <<>>, 0)>>

InitScope ==
    /\ now = 0
    /\ services = [s \in ScopeSvcIds |-> NewService(s, RateLimit)]
    /\ tokens = ScopeTokens
    /\ requests = NoRows
    /\ last_cleanup = 0
    /\ calls = <<>>
    /\ req = [r \in ManyReqIds |-> NewRequest]
    /\ adm = [a \in AdmIds |-> <<>>]

NextScope ==
    \/ \E r \in ReqIds, sid \in ScopeSvcIds, auth \in AuthChoices, hdr \in ClientHeaders :
          Authenticate(r, sid, auth, hdr)
    \/ \E r \in ReqIds : TokenQuery(r)
    \/ \E r \in ReqIds : Resolve(r)
    \/ \E r \in ReqIds : Checks(r)
    \/ \E r \in ReqIds : Handler(r, "ok")
    \/ \E r \in ReqIds : Log(r)

SpecScope == InitScope /\ [][NextScope]_vars

\* The owner's service operations, one call at a time: create, update,
\* disable, enable, delete and restore on two services.
LifecycleOps == ServiceOps \cup {"update"}

InitLifecycle ==
    /\ now = 0
    /\ services = NoRows
    /\ tokens = <<>>
    /\ requests = NoRows
    /\ last_cleanup = 0
    /\ calls = <<>>
    /\ req = [r \in ManyReqIds |-> NewRequest]
    /\ adm = [a \in AdmIds |-> <<>>]

NextLifecycle ==
    \/ \E sid \in ScopeSvcIds : slot_free(1) /\ CreateService(sid, RateLimit)
    \/ \E op \in LifecycleOps, sid \in DOMAIN services : LoadService(1, op, sid)
    \/ CommitService(1)

SpecLifecycle == InitLifecycle /\ [][NextLifecycle]_vars

(***************************************************************************)
(* Properties                                                              *)
(***************************************************************************)
\* the handler was invoked for request r: the request was gateway-admitted
Invoked(r) == req[r].out # ""

\* the ledger rows written for request r
RecordsOf(r) == {i \in DOMAIN calls : calls[i].request = r}

\* C1: once the pipeline is idle, each service's persisted counters are
\* total_calls = N, failed_calls = K and successful_calls = N - K, for the N
\* requests of the service that reached the handler and the K of them whose
\* handler failed.
C1_CountersMatchCalls ==
    Quiescent =>
        \A s \in DOMAIN services :
            LET admitted == {r \in DOMAIN req : Invoked(r) /\ req[r].sid = s}
                failed == {r \in admitted : req[r].out # "ok"}
            IN /\ services[s].total_calls = Cardinality(admitted)
               /\ services[s].failed_calls = Cardinality(failed)
               /\ services[s].successful_calls = Cardinality(admitted) - Cardinality(failed)

\* the limiter admitted request r (its timestamp was appended under the key)
Admitted(r) == req[r].rate # <<>> /\ req[r].code # "RATE_LIMIT_EXCEEDED"

\* the limiter key of a request that resolved a token
KeyOf(r) == rate_limit_key(req[r].sid, req[r].token[1])

\* the requests the limiter admitted under key k in the window (t - WINDOW, t]
AdmittedIn(k, t) ==
    {q \in DOMAIN req : /\ Admitted(q)
                        /\ KeyOf(q) = k
                        /\ t - WINDOW < req[q].checked_at
                        /\ req[q].checked_at <= t}

\* C2: for every key, every window (t - WINDOW, t] holds at most limit
\* admissions of the limiter.  A window with the most admissions can be moved
\* to end at an admission or to begin just before one, so these t suffice.
C2_WindowBound ==
    \A r \in DOMAIN req :
        Admitted(r) =>
            \A t \in {req[r].checked_at, req[r].checked_at + WINDOW - 1} :
                Cardinality(AdmittedIn(KeyOf(r), t)) <= req[r].rate[1].limit

\* a key at its limit: RateLimit admissions in a window and a third call of
\* the window denied
C2_Witness ==
    \E r \in DOMAIN req :
        /\ req[r].code = "RATE_LIMIT_EXCEEDED"
        /\ req[r].rate[1].limit = RateLimit
        /\ Cardinality(AdmittedIn(KeyOf(r), req[r].checked_at)) = RateLimit

\* the earlier admissions under the key of request r, which is at its checks
PriorAdmitted(r) ==
    {q \in DOMAIN req \ {r} : Admitted(q) /\ KeyOf(q) = KeyOf(r)}

\* C3: a call that finds exactly limit admissions of its key inside the
\* window is denied with 429 RATE_LIMIT_EXCEEDED and remaining = 0, and a call
\* made once WINDOW has elapsed since all earlier admissions is admitted.
C3_DeniedThenAdmitted ==
    [][\A r \in DOMAIN req :
          (req[r].pc = "checks" /\ req'[r].rate # <<>>) =>
              LET L == req'[r].rate[1].limit
                  recent == {q \in PriorAdmitted(r) : now - req[q].checked_at < WINDOW}
              IN /\ Cardinality(recent) = L =>
                       /\ req'[r].pc = "done"
                       /\ req'[r].status = 429
                       /\ req'[r].code = "RATE_LIMIT_EXCEEDED"
                       /\ req'[r].rate[1].remaining = 0
                       /\ req'[r].rlh
                 /\ (PriorAdmitted(r) # {} /\ recent = {} /\ L > 0) =>
                       req'[r].code # "RATE_LIMIT_EXCEEDED"]_vars

\* under one key of limit 1: an admission, a denial inside its window, and an
\* admission a full window after the first
C3_Witness ==
    \E p, r, q \in DOMAIN req :
        /\ Admitted(p) /\ Admitted(q) /\ req[r].code = "RATE_LIMIT_EXCEEDED"
        /\ KeyOf(p) = KeyOf(r) /\ KeyOf(q) = KeyOf(r)
        /\ req[r].rate[1].remaining = 0
        /\ req[r].checked_at - req[p].checked_at < WINDOW
        /\ req[q].checked_at - req[p].checked_at >= WINDOW

\* the requests that resolved token t and were not denied by the limiter
UndeniedUsers(t) ==
    {r \in DOMAIN req : /\ req[r].token # <<>>
                        /\ req[r].token[1].id = t
                        /\ req[r].code # "RATE_LIMIT_EXCEEDED"}

\* C4: a request the limiter denies does not change the token's usage: the
\* stored usage_count counts at most the requests that resolved the token and
\* were not denied.
C4_DeniedLeavesUsage ==
    \A t \in DOMAIN tokens :
        tokens[t].usage_count <= Cardinality(UndeniedUsers(t))

\* C5: the token a request resolved was not revoked in the rows the request
\* read, and no operation takes a stored token out of the revoked state.
C5_RevokedStaysOut ==
    /\ [](\A r \in DOMAIN req : req[r].token # <<>> => ~req[r].token[1].is_revoked)
    /\ [][\A t \in DOMAIN tokens : tokens[t].is_revoked => tokens'[t].is_revoked]_vars
    /\ [][\A r \in DOMAIN req :
            (req[r].pc = "tok_q" /\ req'[r].pc = "verify") =>
                \A i \in DOMAIN req'[r].toks : ~tokens[req'[r].toks[i].id].is_revoked]_vars

\* a revoked token that an activation committed afterwards made active again,
\* and a request with its secret answered 401 that read no token
C5_Witness ==
    \E r \in DOMAIN req, t \in DOMAIN tokens :
        /\ tokens[t].is_revoked /\ tokens[t].is_active
        /\ req[r].auth = <<SecretOf(t)>>
        /\ req[r].pc = "done" /\ req[r].status = 401 /\ req[r].code = "INVALID_TOKEN"
        /\ req[r].token = <<>>

\* the loaded token that carries the presented secret has expired
PresentsExpired(r) ==
    \E i \in DOMAIN req[r].toks :
        /\ Sha256(req[r].auth[1]) = req[r].toks[i].token_hash
        /\ req[r].toks[i].expires_at # NoTime
        /\ now > req[r].toks[i].expires_at

\* C6: the verification of a request that presents the correct secret of an
\* expired token ends with 401 INVALID_TOKEN, and changes neither the stored
\* tokens nor the ledger.
C6_ExpiredRejected ==
    [][\A r \in DOMAIN req :
          (req[r].pc = "verify" /\ req'[r].pc # "verify" /\ PresentsExpired(r)) =>
              /\ req'[r].pc = "done"
              /\ req'[r].status = 401
              /\ req'[r].code = "INVALID_TOKEN"
              /\ req'[r].token = <<>>
              /\ tokens' = tokens
              /\ calls' = calls]_vars

\* an active, unrevoked token past its expiry whose secret was answered 401
\* and whose usage was never touched
C6_Witness ==
    \E r \in DOMAIN req, t \in DOMAIN tokens :
        /\ tokens[t].is_active /\ ~tokens[t].is_revoked /\ ~tokens[t].is_delete
        /\ tokens[t].expires_at # NoTime /\ now > tokens[t].expires_at
        /\ tokens[t].usage_count = 0 /\ tokens[t].last_used_at = NoTime
        /\ req[r].auth = <<SecretOf(t)>>
        /\ req[r].pc = "done" /\ req[r].status = 401 /\ req[r].code = "INVALID_TOKEN"

\* the addresses the owner declared for a token, read from the stored text
\* whatever its quoting
DeclaredList(tok) ==
    IF tok.ip_whitelist = <<>> THEN {}
    ELSE {tok.ip_whitelist[1][i].s : i \in DOMAIN tok.ip_whitelist[1]}

\* C7: a request that reaches the handler with a token that declares a
\* non-empty allow-list comes from an address of the list.
C7_AllowListEnforced ==
    \A r \in DOMAIN req :
        (req[r].pc \in {"handler", "log"} \/ Invoked(r)) =>
            \/ DeclaredList(req[r].token[1]) = {}
            \/ get_client_ip(req[r].hdr) \in DeclaredList(req[r].token[1])

\* C8: a request that passed the checks and got its response has exactly one
\* row in the ledger.
C8_ExactlyOneRecord ==
    \A r \in DOMAIN req :
        (Invoked(r) /\ req[r].pc = "done") => Cardinality(RecordsOf(r)) = 1

\* C9: when the detection failed inside the handler, the caller got the
\* payload with success = false, the ledger row of the request has
\* success = FALSE, and the service object of the request counted a failed
\* call and no successful one.
C9_FailureRecorded ==
    \A r \in DOMAIN req :
        (req[r].out = "detect_error" /\ req[r].pc = "done") =>
            /\ req[r].body = "success_false"
            /\ \E i \in RecordsOf(r) : ~calls[i].success
            /\ \A i \in RecordsOf(r) : ~calls[i].success
            /\ req[r].svc[1].failed_calls = services[req[r].sid].failed_calls + 1
            /\ req[r].svc[1].successful_calls = services[req[r].sid].successful_calls

RejectionCodes == {"INVALID_TOKEN", "SERVICE_DISABLED", "RATE_LIMIT_EXCEEDED", "IP_NOT_ALLOWED"}

\* request r passed credential extraction, token resolution, the service
\* activity check, the limiter and the allow-list check
PassedChecks(r) ==
    /\ req[r].auth # <<>>
    /\ req[r].token # <<>>
    /\ Sha256(req[r].auth[1]) = req[r].token[1].token_hash
    /\ req[r].svc # <<>>
    /\ req[r].svc[1].status = "active" /\ ~req[r].svc[1].is_delete
    /\ req[r].rate # <<>>
    /\ req[r].rate[1].current <= req[r].rate[1].limit
    /\ req[r].rate[1].current >= 1
    /\ ~ip_rejected(req[r].token[1], get_client_ip(req[r].hdr))

\* C10: a request answered with a rejection code never had the handler
\* invoked and left no ledger row, and the handler is invoked only for a
\* request that passed every check.
C10_RejectedNeverRuns ==
    \A r \in DOMAIN req :
        /\ req[r].code \in RejectionCodes =>
              /\ req[r].pc = "done"
              /\ ~Invoked(r)
              /\ RecordsOf(r) = {}
        /\ (req[r].pc \in {"handler", "log"} \/ Invoked(r)) => PassedChecks(r)

\* one request stopped by the allow-list and another by the limiter, neither
\* with the handler invoked
C10_Witness ==
    \E r, q \in DOMAIN req :
        /\ req[r].code = "IP_NOT_ALLOWED" /\ req[r].status = 403
        /\ req[q].code = "RATE_LIMIT_EXCEEDED" /\ req[q].status = 429
        /\ ~Invoked(r) /\ ~Invoked(q)
        /\ req[r].pc = "done" /\ req[q].pc = "done"

\* C11: every response of dispatch to a request that entered the pipeline
\* carries the X-RateLimit-* headers.
C11_HeadersOnEveryResponse ==
    \A r \in DOMAIN req : req[r].pc = "done" => req[r].rlh

\* the token is in a terminal state
Terminal(tok) == tok.is_revoked \/ tok.is_delete

\* a request that presents the secret of stored token t would resolve it now
Resolves(t) ==
    LET toks == token_query(tokens, tokens[t].service_id)
        i == first_match(toks, SecretOf(t), now)
    IN IF i = 0 THEN FALSE ELSE toks[i].id = t

\* owner call a commits the operation it loaded a token for
Commits(a) ==
    /\ adm[a] # <<>>
    /\ adm[a][1].kind = "token"
    /\ adm'[a] # adm[a]

\* C12: a stored token that is revoked stays revoked and one that is deleted
\* stays deleted, whatever the endpoints do and however they interleave; such
\* a token is never resolved; activate on a revoked or deleted token returns
\* without error and changes neither the object nor the store, and revoke on
\* a revoked token leaves it revoked.
C12_TerminalStates ==
    /\ [][\A t \in DOMAIN tokens :
            /\ tokens[t].is_revoked => tokens'[t].is_revoked
            /\ tokens[t].is_delete => tokens'[t].is_delete]_vars
    /\ [](\A t \in DOMAIN tokens : Terminal(tokens[t]) => ~Resolves(t))
    /\ [][\A a \in DOMAIN adm :
            (Commits(a) /\ Terminal(adm[a][1].obj)) =>
                /\ adm'[a][1].kind = "returned"
                /\ Terminal(adm'[a][1].obj)
                /\ adm[a][1].op = "activate" =>
                      /\ adm'[a][1].obj = adm[a][1].obj
                      /\ tokens' = tokens
                /\ (adm[a][1].op = "revoke" /\ adm[a][1].obj.is_revoked) =>
                      /\ adm'[a][1].obj.is_revoked
                      /\ tokens'[adm[a][1].obj.id].is_revoked]_vars

\* an activate and a revoke that both returned on a revoked token, which is
\* still revoked in the store and does not resolve
C12_Witness ==
    \E a, b \in DOMAIN adm :
        /\ adm[a] # <<>> /\ adm[b] # <<>>
        /\ adm[a][1].kind = "returned" /\ adm[a][1].op = "activate"
        /\ adm[a][1].obj.is_revoked
        /\ adm[b][1].kind = "returned" /\ adm[b][1].op = "revoke"
        /\ tokens[adm[a][1].obj.id].is_revoked
        /\ ~Resolves(adm[a][1].obj.id)

\* the request being answered carries the secret of a token of its service
\* that is valid in the store
CarriesValidToken(r) ==
    \E t \in DOMAIN tokens :
        /\ req'[r].auth = <<SecretOf(t)>>
        /\ tokens[t].service_id = req'[r].sid
        /\ verify_token(tokens[t], SecretOf(t), now)

\* the service row the request being answered has read, or reads in this step
ServiceSeen(r) ==
    IF req[r].svc # <<>> THEN req[r].svc[1] ELSE services[req'[r].sid]

\* C13: when dispatch answers, before the handler, a request that carries a
\* valid token while its service is not active or is soft-deleted, the answer
\* is 403 SERVICE_DISABLED.
C13_DisabledServiceRejected ==
    [][\A r \in DOMAIN req :
          (/\ req[r].pc \in {"new", "tok_q", "verify", "checks"}
           /\ req'[r].pc = "done"
           /\ CarriesValidToken(r)
           /\ ~is_active(ServiceSeen(r))) =>
              /\ req'[r].status = 403
              /\ req'[r].code = "SERVICE_DISABLED"]_vars

\* the requests that resolved token t
Resolvers(t) == {r \in DOMAIN req : req[r].token # <<>> /\ req[r].token[1].id = t}

\* C14: once every invocation has finished, the stored usage_count of each
\* token (0 when it was created) is the number of invocations that resolved
\* it.
C14_NoLostUsageUpdate ==
    Quiescent =>
        \A t \in DOMAIN tokens : tokens[t].usage_count = Cardinality(Resolvers(t))

\* C15: in every state, the number of ledger rows of a service is the
\* service's stored total_calls.
C15_LedgerMatchesCounter ==
    \A s \in DOMAIN services :
        Cardinality({i \in DOMAIN calls : calls[i].service_id = s}) = services[s].total_calls

Advertised == {generate_api_endpoint(s) : s \in DOMAIN services}

\* C17: a request to a path that a service advertises as its api_endpoint is
\* not passed through: it enters the pipeline; a request to any other path is
\* passed through.
C17_AdvertisedPathEnters ==
    \A r \in DOMAIN req :
        req[r].pc # "new" =>
            /\ req[r].path \in Advertised => req[r].pc # "passed"
            /\ req[r].path \notin Advertised => req[r].pc = "passed"

\* an exception was raised while the pipeline handled request r: in the token
\* resolution, in the handler, or in the audit
Faulted(r) ==
    \/ req[r].fault # ""
    \/ req[r].out \in {"detect_error", "commit_error", "raised"}

\* C18: a request during which an exception was raised is answered 500 with
\* a generic code and a body without the error text.
C18_ExceptionsBecome500 ==
    \A r \in DOMAIN req :
        (req[r].pc = "done" /\ Faulted(r)) =>
            /\ req[r].status = 500
            /\ req[r].code \in {"AUTH_ERROR", "INTERNAL_ERROR"}
            /\ ~has_error_text(req[r].body)

\* the three call counters of a PublishedService object agree
counters_agree(svc) == svc.successful_calls + svc.failed_calls = svc.total_calls

\* no counter of the object after is below its value in the object before
counters_kept(before, after) ==
    /\ after.total_calls >= before.total_calls
    /\ after.successful_calls >= before.successful_calls
    /\ after.failed_calls >= before.failed_calls

\* the step in which _log_service_call records the call of request r
Records(r) == req[r].pc = "log" /\ req'[r].pc = "done"

\* C19: the counters of every PublishedService, stored or held by a request,
\* satisfy successful_calls + failed_calls = total_calls; recording a call
\* raises total_calls by one and exactly one of successful_calls and
\* failed_calls by one; no step lowers any of the three counters.
C19_CountersConsistent ==
    /\ [](/\ \A s \in DOMAIN services : counters_agree(services[s])
          /\ \A r \in DOMAIN req : req[r].svc # <<>> => counters_agree(req[r].svc[1]))
    /\ [][\A r \in DOMAIN req :
            Records(r) =>
                LET before == req[r].svc[1]
                    after == req'[r].svc[1]
                    ds == after.successful_calls - before.successful_calls
                    df == after.failed_calls - before.failed_calls
                IN /\ after.total_calls = before.total_calls + 1
                   /\ <<ds, df>> \in {<<1, 0>>, <<0, 1>>}
                   /\ (ds = 1) <=> call_success(req[r].status)]_vars
    /\ [][/\ \A s \in DOMAIN services : counters_kept(services[s], services'[s])
          /\ \A r \in DOMAIN req :
                (req[r].svc # <<>> /\ req'[r].svc # <<>>) =>
                    counters_kept(req[r].svc[1], req'[r].svc[1])]_vars

\* a failed call and a successful call have both been recorded
C19_Witness ==
    /\ \E r \in DOMAIN req :
          /\ req[r].pc = "done"
          /\ RecordsOf(r) # {}
          /\ req[r].svc[1].failed_calls = 1
          /\ req[r].svc[1].total_calls = 1
    /\ \E r \in DOMAIN req :
          /\ req[r].pc = "done"
          /\ RecordsOf(r) # {}
          /\ req[r].svc[1].successful_calls = 1
          /\ req[r].svc[1].total_calls = 1

\* the stored tokens whose secret request r presents
Presented(r) ==
    {t \in DOMAIN tokens : req[r].auth # <<>> /\ req[r].auth[1] = SecretOf(t)}

\* request r was sent to a service with the secret of a token of another one
CrossService(r) ==
    /\ req[r].pc # "new"
    /\ \E t \in Presented(r) : tokens[t].service_id # req[r].sid

\* C20: a request that presents the secret of a token of one service at the
\* detect path of another service resolves no token and is answered 401
\* INVALID_TOKEN, and no step of that request changes a stored token.
C20_TokenScopedToService ==
    /\ [](\A r \in DOMAIN req :
            CrossService(r) =>
                /\ req[r].token = <<>>
                /\ req[r].pc \in {"tok_q", "verify", "done"}
                /\ req[r].pc = "done" =>
                      /\ req[r].status = 401
                      /\ req[r].code = "INVALID_TOKEN"
                      /\ RecordsOf(r) = {})
    /\ [][\A r \in DOMAIN req :
            (CrossService(r) /\ req'[r] # req[r]) => tokens' = tokens]_vars

\* a valid token was used once at its own service, and a request presenting
\* the same secret at the other service was rejected without a usage update
C20_Witness ==
    \E r, q \in DOMAIN req, t \in DOMAIN tokens :
        /\ t \in Presented(r) /\ t \in Presented(q)
        /\ CrossService(r)
        /\ req[r].pc = "done" /\ req[r].status = 401
        /\ req[q].sid = tokens[t].service_id
        /\ req[q].pc = "done" /\ req[q].status = 200
        /\ tokens[t].usage_count = 1

\* the bodies of a ServiceDetectionResponse, which carry a success field
SuccessBodies == {"success_true", "success_false"}

\* C21: every request that reached the handler is answered HTTP 200 with a
\* body whose success field tells the outcome, also when the file validation
\* or the detection failed.
C21_AlwaysTransport200 ==
    \A r \in DOMAIN req :
        (Invoked(r) /\ req[r].pc = "done") =>
            /\ req[r].status = 200
            /\ req[r].body \in SuccessBodies

\* C22: no two stored tokens of one service that are not deleted carry the
\* same token_name, however concurrent create_token calls interleave.
C22_TokenNamesUnique ==
    \A i, j \in DOMAIN tokens :
        (/\ i # j
         /\ tokens[i].service_id = tokens[j].service_id
         /\ ~tokens[i].is_delete
         /\ ~tokens[j].is_delete) => tokens[i].token_name # tokens[j].token_name

\* C23: whatever service operations the owner runs one after another, a
\* stored service has status "deleted" exactly when its is_delete flag is set.
C23_StatusMatchesDeleteFlag ==
    \A s \in DOMAIN services :
        (services[s].status = "deleted") <=> services[s].is_delete

\* a service that was deleted has just been restored, and another is deleted
C23_Witness ==
    /\ adm[1] # <<>>
    /\ adm[1][1].kind = "returned"
    /\ adm[1][1].op = "restore"
    /\ services[adm[1][1].obj.id].status = "active"
    /\ ~services[adm[1][1].obj.id].is_delete
    /\ \E s \in DOMAIN services : services[s].is_delete /\ services[s].status = "deleted"

\* the timestamps the limiter holds under key k that are inside the window
\* that ends at time t
InWindow(k, t) ==
    IF k \in DOMAIN requests
    THEN {requests[k][i] : i \in {j \in DOMAIN requests[k] : in_window(requests[k][j], t - WINDOW)}}
    ELSE {}

\* the least element of a non-empty set of timestamps
Oldest(S) == CHOOSE x \in S : \A y \in S : x <= y

\* the step in which dispatch calls the limiter for request r
Limits(r) == req[r].pc = "checks" /\ req'[r].rate # <<>>

\* C24: the reset value the limiter returns is the instant the oldest
\* timestamp inside the window leaves it, and it is the time of the call when
\* the key had no timestamp inside the window before the call.
C24_ResetFromOldest ==
    [][\A r \in DOMAIN req :
          Limits(r) =>
              LET before == InWindow(KeyOf(r), now)
              IN req'[r].rate[1].reset =
                    IF before = {} THEN now ELSE Oldest(before) + WINDOW]_vars

\* the limiter denies the call of request r in this step
Denies(r) == Limits(r) /\ req'[r].code = "RATE_LIMIT_EXCEEDED"

\* the history the limiter state reqs holds under key k, <<>> when it holds
\* none
HistoryOf(reqs, k) == IF k \in DOMAIN reqs THEN reqs[k] ELSE <<>>

\* the timestamps of that history inside the window that ends at time t, in
\* order, each as often as it was recorded
WindowOf(reqs, k, t) ==
    SelectSeq(HistoryOf(reqs, k), LAMBDA x : in_window(x, t - WINDOW))

\* the timestamps of that history inside the retention horizon at time t
RetainedOf(reqs, k, t) ==
    SelectSeq(HistoryOf(reqs, k), LAMBDA x : x > t - RETENTION)

\* C25 as stated: a denied call leaves the in-window timestamps of its key as
\* they were and the history of every other key unchanged, and returns
\* remaining = 0 and current = the in-window count before the call.
C25_DenialLeavesHistories ==
    [][\A r \in DOMAIN req :
          Denies(r) =>
              /\ WindowOf(requests', KeyOf(r), now) = WindowOf(requests, KeyOf(r), now)
              /\ \A k \in (DOMAIN requests \cup DOMAIN requests') \ {KeyOf(r)} :
                    HistoryOf(requests', k) = HistoryOf(requests, k)
              /\ req'[r].rate[1].remaining = 0
              /\ req'[r].rate[1].current = Len(WindowOf(requests, KeyOf(r), now))]_vars

\* C25: a denied call leaves the in-window timestamps of every key as they
\* were, drops from another key's history at most the timestamps older than
\* the retention horizon, and returns remaining = 0 and current = the
\* in-window count before the call.
C25_DenialLeavesWindows ==
    [][\A r \in DOMAIN req :
          Denies(r) =>
              /\ \A k \in DOMAIN requests \cup DOMAIN requests' :
                    /\ WindowOf(requests', k, now) = WindowOf(requests, k, now)
                    /\ k # KeyOf(r) =>
                          HistoryOf(requests', k) \in
                             {HistoryOf(requests, k), RetainedOf(requests, k, now)}
              /\ req'[r].rate[1].remaining = 0
              /\ req'[r].rate[1].current = Len(WindowOf(requests, KeyOf(r), now))]_vars

\* a call was denied and the cleanup that ran inside that same call dropped
\* the stale history of another key: the denied call is the only call made
\* at the time of the last cleanup, and no earlier call came late enough to
\* drop that history
C25_Witness ==
    \E r, q \in DOMAIN req :
        /\ req[r].code = "RATE_LIMIT_EXCEEDED"
        /\ req[r].pc = "done"
        /\ req[r].rate[1].remaining = 0
        /\ last_cleanup = req[r].checked_at
        /\ Admitted(q)
        /\ KeyOf(q) # KeyOf(r)
        /\ KeyOf(q) \notin DOMAIN requests
        /\ \A p \in DOMAIN req \ {r} :
              req[p].rate # <<>> =>
                  /\ req[p].checked_at < req[r].checked_at
                  /\ req[q].checked_at > req[p].checked_at - RETENTION

\* the call of the limiter for request r runs the cleanup in this step
CleansUp(r) == Limits(r) /\ last_cleanup' # last_cleanup

\* what the limiter would answer request r in the current state if its
\* cleanup were not due
WithoutCleanup(r) ==
    is_allowed(requests, now, KeyOf(r), limit_value(req[r].token[1], req[r].svc[1]),
               WINDOW, now)

\* C26: a cleanup pass run inside a call of the limiter removes no timestamp
\* that is inside the window of its key, and the decision and the counts of
\* the call are those of the same call without the cleanup.
C26_CleanupKeepsWindow ==
    [][\A r \in DOMAIN req :
          CleansUp(r) =>
              /\ \A k \in DOMAIN requests :
                    WindowOf(cleanup_expired_records(requests, now), k, now)
                       = WindowOf(requests, k, now)
              /\ \A k \in DOMAIN requests \ {KeyOf(r)} :
                    WindowOf(requests', k, now) = WindowOf(requests, k, now)
              /\ req'[r].rate[1] = WithoutCleanup(r).info
              /\ (req'[r].code = "RATE_LIMIT_EXCEEDED") <=> ~WithoutCleanup(r).allowed
              /\ WindowOf(requests', KeyOf(r), now)
                    = WindowOf(WithoutCleanup(r).requests, KeyOf(r), now)]_vars

\* the cleanup ran inside a call that found an earlier timestamp of its key
\* inside the window, kept it, and was denied on its account
C26_Witness ==
    \E r \in DOMAIN req :
        /\ req[r].pc = "done"
        /\ req[r].checked_at > CLEANUP_INTERVAL
        /\ last_cleanup = req[r].checked_at
        /\ \A p \in DOMAIN req \ {r} : req[p].rate # <<>> => req[p].checked_at < req[r].checked_at
        /\ req[r].code = "RATE_LIMIT_EXCEEDED"
        /\ KeyOf(r) \in DOMAIN requests
        /\ \E i \in DOMAIN requests[KeyOf(r)] :
              /\ requests[KeyOf(r)][i] < req[r].checked_at
              /\ in_window(requests[KeyOf(r)][i], req[r].checked_at - WINDOW)

\* the token that request r resolved carries an override, and int() accepts
\* its text
OverrideParses(r) ==
    /\ req[r].token[1].rate_limit_override # <<>>
    /\ IsIntText(req[r].token[1].rate_limit_override[1])

\* the token that request r resolved carries an override that int() refuses
OverrideMalformed(r) ==
    /\ req[r].token # <<>>
    /\ req[r].token[1].rate_limit_override # <<>>
    /\ ~IsIntText(req[r].token[1].rate_limit_override[1])

\* C27: the limit of a request's rate check is the integer of the token's
\* override when the token has one that parses, and the service's rate_limit
\* otherwise; a request whose token carries a malformed override is checked
\* against the service's value and is not failed by the gateway's checks.
C27_OverrideOrServiceLimit ==
    /\ [][\A r \in DOMAIN req :
            Limits(r) =>
                /\ req'[r].rate[1].limit =
                      IF OverrideParses(r)
                      THEN IntOfText(req[r].token[1].rate_limit_override[1])
                      ELSE req[r].svc[1].rate_limit
                /\ OverrideMalformed(r) => req'[r].status # 500]_vars
    /\ [](\A r \in DOMAIN req :
            (OverrideMalformed(r) /\ req[r].rate # <<>>) =>
                /\ req[r].rate[1].limit = req[r].svc[1].rate_limit
                /\ req[r].status = 500 => req[r].out = "raised")

\* a request with a malformed override was admitted against the service's
\* limit and served, and one with a numeric override was checked against it
C27_Witness ==
    /\ \E r \in DOMAIN req :
          /\ OverrideMalformed(r)
          /\ req[r].pc = "done"
          /\ req[r].status = 200
          /\ req[r].rate[1].limit = services[req[r].sid].rate_limit
    /\ \E r \in DOMAIN req :
          /\ req[r].token # <<>>
          /\ OverrideParses(r)
          /\ req[r].rate # <<>>
          /\ req[r].rate[1].limit = 1
          /\ req[r].rate[1].limit # services[req[r].sid].rate_limit

\* the limiter holds a timestamp older than the retention horizon, or a key
\* with an empty history
HoldsStale ==
    \E k \in DOMAIN requests :
        \/ requests[k] = <<>>
        \/ \E i \in DOMAIN requests[k] : ~(requests[k][i] > now - RETENTION)

\* C28: whenever the limiter holds a timestamp older than the retention
\* horizon or a key with an empty history, it later holds none, whether or
\* not another request is made.
C28_StaleEventuallyDiscarded == HoldsStale ~> ~HoldsStale

\* dispatch answers request r with one of its rejections in this step
Rejects(r) == req[r].pc # "done" /\ req'[r].pc = "done" /\ req'[r].code \in RejectionCodes

\* the call counters and the last call time of a service object are those of
\* the stored service
counters_of_store(svc) ==
    /\ svc.total_calls = services[svc.id].total_calls
    /\ svc.successful_calls = services[svc.id].successful_calls
    /\ svc.failed_calls = services[svc.id].failed_calls
    /\ svc.last_called_at = services[svc.id].last_called_at

\* C29: the step that rejects a request with INVALID_TOKEN, SERVICE_DISABLED,
\* RATE_LIMIT_EXCEEDED or IP_NOT_ALLOWED writes no ledger row and changes no
\* stored service; a rejected request has no ledger row, and the service
\* object it holds has the counters and the last call time of the store.
C29_RejectionLeavesCounters ==
    /\ [][\A r \in DOMAIN req :
            Rejects(r) =>
                /\ calls' = calls
                /\ services' = services
                /\ req'[r].svc = req[r].svc]_vars
    /\ [](\A r \in DOMAIN req :
            req[r].code \in RejectionCodes =>
                /\ RecordsOf(r) = {}
                /\ req[r].svc # <<>> => counters_of_store(req[r].svc[1]))

\* a request was rejected after its service was loaded, while another one
\* was served and recorded
C29_Witness ==
    \E r, q \in DOMAIN req :
        /\ req[r].code \in {"SERVICE_DISABLED", "RATE_LIMIT_EXCEEDED", "IP_NOT_ALLOWED"}
        /\ req[r].pc = "done"
        /\ req[r].svc # <<>>
        /\ req[r].svc[1].total_calls = 0
        /\ req[q].pc = "done"
        /\ RecordsOf(q) # {}
        /\ Len(calls) = 1

\* the allow-list check rejects request r in this step
RejectsAddress(r) == req[r].pc = "checks" /\ req'[r].code = "IP_NOT_ALLOWED"

\* the other requests rejected by the allow-list under the key of request r
\* whose check was made less than a window before now
RejectedInWindow(r) ==
    {p \in DOMAIN req \ {r} : /\ req[p].code = "IP_NOT_ALLOWED"
                              /\ KeyOf(p) = KeyOf(r)
                              /\ now - req[p].checked_at < WINDOW}

\* C30: a request rejected with IP_NOT_ALLOWED has passed the limiter in the
\* same dispatch, which appended the time of the call to the history of its
\* key; for the next 60 seconds that timestamp is counted in the calls of the
\* key, which are denied once such timestamps alone reach the limit.
C30_RejectedAddressCounts ==
    /\ [][\A r \in DOMAIN req :
            RejectsAddress(r) =>
                /\ req'[r].rate # <<>>
                /\ req'[r].checked_at = now
                /\ WindowOf(requests', KeyOf(r), now)
                      = Append(WindowOf(requests, KeyOf(r), now), now)]_vars
    /\ [][\A r \in DOMAIN req :
            Limits(r) =>
                /\ req'[r].rate[1].current >= Cardinality(RejectedInWindow(r))
                /\ Cardinality(RejectedInWindow(r)) >= req'[r].rate[1].limit =>
                      req'[r].code = "RATE_LIMIT_EXCEEDED"]_vars

\* a request was rejected by the allow-list, a later one from an allowed
\* address was denied by the limiter within the window on its account, and a
\* third one made after the window was served
C30_Witness ==
    \E r, q, p \in DOMAIN req :
        /\ req[r].code = "IP_NOT_ALLOWED"
        /\ req[q].code = "RATE_LIMIT_EXCEEDED"
        /\ req[q].checked_at - req[r].checked_at < WINDOW
        /\ req[q].rate[1].current = 1
        /\ \A x \in DOMAIN req \ {r} :
              req[x].rate # <<>> => req[x].checked_at >= req[q].checked_at
        /\ req[p].pc = "done"
        /\ req[p].status = 200
        /\ req[p].checked_at - req[r].checked_at >= WINDOW

====
